---------------------------- MODULE Spec2Model ----------------------------
(***************************************************************************)
(* A model of the Z3 proof cache (src/z3/z3_cache.py) and of the proof     *)
(* query that is meant to sit in front of it                               *)
(* (src/mcp_backend_z3_current.py).                                        *)
(*                                                                         *)
(* Python strings are sequences of one-character strings, so that sorting, *)
(* serialisation and scanning are computed character by character.         *)
(***************************************************************************)
EXTENDS Integers, Sequences, FiniteSets, TLC

VARIABLES
  hargs,        \* the arguments of two _compute_hash calls under comparison
  hdigest,      \* the digest each call returned, NoDigest before it has run
  tableExists,  \* the store file holds the table z3_proof_cache
  rows,         \* the rows of z3_proof_cache: [hash_key, result, timestamp]
  now,          \* the clock read by time.time()
  event,        \* the operation that ran last, and what it returned
  written,      \* history: per query content, the verdict last committed
  lock,         \* the connection holding SQLite's write lock, 0 for none
  pending,      \* per connection, the row its open transaction has written
  everSet,      \* history: the verdicts set_cache calls have committed
  runs,         \* the prove_logic calls made so far, with what each returned
  call,         \* the prove_logic call that is building its symbol table
  symbol_table, \* locals_dict of that call
  solver,       \* the assertions in the solver of the latest prove_logic call
  sessions,     \* per concurrent prove_logic call, its arguments and its locals
  responses     \* the check_satisfiability calls made so far, with what each returned

hashVars == << hargs, hdigest >>
storeVars == << tableExists, rows, now >>
cacheVars == << storeVars, event, written >>
connVars == << lock, pending, everSet >>
proveVars == << runs, solver, call, symbol_table, sessions, responses >>
vars == << hashVars, cacheVars, connVars, proveVars >>

(***************************************************************************)
(* Characters and strings                                                  *)
(***************************************************************************)

\* The printable ASCII characters in code-point order, starting at 32. The
\* double quote, the backslash and the backtick are written by name.
Ascii ==
  << " ", "!", "QUOTE", "#", "$", "%", "&", "'", "(", ")", "*", "+", ",", "-",
     ".", "/", "0", "1", "2", "3", "4", "5", "6", "7", "8", "9", ":", ";",
     "<", "=", ">", "?", "@", "A", "B", "C", "D", "E", "F", "G", "H", "I",
     "J", "K", "L", "M", "N", "O", "P", "Q", "R", "S", "T", "U", "V", "W",
     "X", "Y", "Z", "[", "BACKSLASH", "]", "^", "_", "BACKTICK", "a", "b", "c", "d", "e",
     "f", "g", "h", "i", "j", "k", "l", "m", "n", "o", "p", "q", "r", "s",
     "t", "u", "v", "w", "x", "y", "z", "{", "|", "}", "~" >>

\* ord(ch): the code point of a character.
IndexOf(table, ch) == CHOOSE i \in 1..Len(table) : table[i] = ch
ord(ch) == 31 + IndexOf(Ascii, ch)

\* Python's str.__lt__: code-point lexicographic order, a proper prefix first.
RECURSIVE StrLess(_, _)
StrLess(a, b) ==
  IF b = << >> THEN FALSE
  ELSE IF a = << >> THEN TRUE
  ELSE IF Head(a) = Head(b) THEN StrLess(Tail(a), Tail(b))
  ELSE ord(Head(a)) < ord(Head(b))

\* Concatenation of a sequence of strings.
RECURSIVE Concat(_)
Concat(ss) == IF ss = << >> THEN << >> ELSE Head(ss) \o Concat(Tail(ss))

\* sep.join(parts)
RECURSIVE Join(_, _)
Join(sep, parts) ==
  IF parts = << >> THEN << >>
  ELSE IF Len(parts) = 1 THEN parts[1]
  ELSE parts[1] \o sep \o Join(sep, Tail(parts))

(***************************************************************************)
(* Optional dictionaries: None, or an insertion-ordered list of            *)
(* <<key, value>> pairs with distinct keys.                                *)
(***************************************************************************)
None == [tag |-> "None"]
Dict(items) == [tag |-> "dict", items |-> items]


\* Words of the serialisation.
Json ==
  [ conclusion |-> << "c", "o", "n", "c", "l", "u", "s", "i", "o", "n" >>,
    premises |-> << "p", "r", "e", "m", "i", "s", "e", "s" >>,
    null |-> << "n", "u", "l", "l" >> ]

(***************************************************************************)
(* Argument values of test_cache_unit.py                                   *)
(***************************************************************************)
\* The strings of the test.
Unit ==
  [ A |-> << "A" >>,
    B |-> << "B" >>,
    C |-> << "C" >>,
    AimpB |-> << "A", " ", "-", ">", " ", "B" >>,
    bool |-> << "b", "o", "o", "l" >>,
    Alpha |-> << "A", "l", "p", "h", "a" >>,
    AlphaBet |-> << "A", "l", "p", "h", "a", "B", "e", "t" >> ]

\* decls1, decls2, aliases1 and aliases2 of the test.
UnitHints ==
  [ decls1 |-> Dict(<< << Unit.A, Unit.bool >>, << Unit.B, Unit.bool >> >>),
    decls2 |-> Dict(<< << Unit.A, Unit.bool >>, << Unit.B, Unit.bool >>,
                       << Unit.C, Unit.bool >> >>),
    aliases1 |-> Dict(<< << Unit.A, Unit.Alpha >> >>),
    aliases2 |-> Dict(<< << Unit.A, Unit.AlphaBet >> >>) ]

(***************************************************************************)
(* Z3Cache._compute_hash                                                   *)
(***************************************************************************)

\* list.insert into an ascending list, after the elements not greater than x.
RECURSIVE InsertSorted(_, _)
InsertSorted(x, s) ==
  IF s = << >> THEN << x >>
  ELSE IF StrLess(x, Head(s)) THEN << x >> \o s
  ELSE << Head(s) >> \o InsertSorted(x, Tail(s))

\* A plausible slip: the premises are hashed in the order given.
sorted_as_given(xs) == xs

\* sorted(xs) for a list of strings: ascending, stable.
RECURSIVE sorted(_)
sorted(xs) ==
  IF xs = << >> THEN << >>
  ELSE InsertSorted(xs[Len(xs)], sorted(SubSeq(xs, 1, Len(xs) - 1)))

\* The JSON encoder's escaping of a string of printable ASCII characters.
RECURSIVE json_escape(_)
json_escape(str) ==
  IF str = << >> THEN << >>
  ELSE (IF Head(str) \in {"QUOTE", "BACKSLASH"}
          THEN << "BACKSLASH", Head(str) >>
          ELSE << Head(str) >>) \o json_escape(Tail(str))

json_string(str) == << "QUOTE" >> \o json_escape(str) \o << "QUOTE" >>

json_list(xs) ==
  << "[" >> \o Join(<< ",", " " >>, [i \in 1..Len(xs) |-> json_string(xs[i])])
    \o << "]" >>

\* json.dumps of a dictionary whose values are strings.
json_dict(d) ==
  IF d = None THEN Json.null
  ELSE << "{" >>
       \o Join(<< ",", " " >>,
               [i \in 1..Len(d.items) |->
                  json_string(d.items[i][1]) \o << ":", " " >>
                    \o json_string(d.items[i][2])])
       \o << "}" >>

\* json.dumps(data, sort_keys=True) for data = {"premises": .., "conclusion": ..}:
\* the keys in ascending order, ", " between items and ": " after a key.
json_dumps(data) ==
  << "{" >> \o json_string(Json.conclusion) \o << ":", " " >>
    \o json_string(data.conclusion) \o << ",", " " >>
    \o json_string(Json.premises) \o << ":", " " >> \o json_list(data.premises)
    \o << "}" >>

\* hashlib.sha256(..).hexdigest(): a collision-resistant digest, modelled as
\* an injective tag on the bytes hashed.
sha256(bytes) == [sha256 |-> bytes]

\* No digest computed yet.
NoDigest == [sha256 |-> << "NoDigest" >>]

\* A plausible slip (the behaviour the loose-caching change removed): the
\* declarations and aliases take part in the hashed structure.
_compute_hash_strict(premises, conclusion, declarations, aliases) ==
  sha256(json_dumps([premises |-> IF premises # << >> THEN sorted(premises) ELSE << >>,
                     conclusion |-> conclusion])
         \o json_dict(declarations) \o json_dict(aliases))

_compute_hash(premises, conclusion, declarations, aliases) ==
  LET norm_premises == IF premises # << >> THEN sorted(premises) ELSE << >>
      data == [premises |-> norm_premises, conclusion |-> conclusion]
      json_str == json_dumps(data)
  IN  sha256(json_str)


(***************************************************************************)
(* The store: one SQLite file with the table z3_proof_cache                *)
(***************************************************************************)

\* The clock's last value.
MaxTime == 1

\* The number of connections open at a time: each call opens its own.
NumConnections == 2
Connections == 1..NumConnections

\* The queries of the cache tests: the query of test_cache_unit.py, the same
\* with its premises in the other order, one with a premise less, and one
\* with another conclusion.
CacheQueries ==
  { [premises |-> << Unit.AimpB, Unit.A >>, conclusion |-> Unit.B],
    [premises |-> << Unit.A, Unit.AimpB >>, conclusion |-> Unit.B],
    [premises |-> << Unit.A >>, conclusion |-> Unit.B],
    [premises |-> << Unit.AimpB, Unit.A >>, conclusion |-> Unit.A] }
\* The declarations and aliases a call passes along: none, those of the
\* test's first context, those of its second.
CacheHints ==
  { [declarations |-> None, aliases |-> None],
    [declarations |-> UnitHints.decls1, aliases |-> UnitHints.aliases1],
    [declarations |-> UnitHints.decls2, aliases |-> UnitHints.aliases2] }

\* The digest of every call of the cache tests, computed once.
HashTable ==
  [ x \in CacheQueries \X CacheHints |->
      _compute_hash(x[1].premises, x[1].conclusion,
                    x[2].declarations, x[2].aliases) ]

\* What an SQLite call can meet: success, or an sqlite3 error (file not
\* readable or writable, database locked, disk full).
IoOutcomes == { "ok", "error" }

\* int(result) and bool(row[0])
int(b) == IF b THEN 1 ELSE 0
bool(n) == n # 0

\* Optional[bool] as returned to the caller.
PyBool(b) == IF b THEN "True" ELSE "False"

\* CREATE TABLE IF NOT EXISTS z3_proof_cache (hash_key TEXT PRIMARY KEY, ..)
_init_db(db, io) ==
  IF io = "ok" THEN [db EXCEPT !.tableExists = TRUE] ELSE db

\* SELECT result FROM z3_proof_cache WHERE hash_key = ?
\* raised: no such table, or the read failed.
sql_select(db, hash_key, io) ==
  IF io # "ok" \/ ~db.tableExists
    THEN [raised |-> TRUE, found |-> {}]
    ELSE [raised |-> FALSE,
          found |-> { r.result : r \in { x \in db.rows : x.hash_key = hash_key } }]

\* A plausible slip: a table without the primary key, so that INSERT adds a row.
sql_insert(table, row) == table \cup { row }

\* INSERT OR REPLACE on the primary key hash_key.
sql_insert_or_replace(table, row) ==
  { r \in table : r.hash_key # row.hash_key } \cup { row }

\* A plausible slip: a lookup that consumes the entry it returns.
get_cache_evicting(db, hash_key, io) ==
  LET q == sql_select(db, hash_key, io)
  IN  IF q.raised \/ q.found = {}
        THEN { [db |-> db, value |-> "None", raised |-> FALSE] }
        ELSE { [db |-> [db EXCEPT !.rows = { r \in db.rows : r.hash_key # hash_key }],
                value |-> PyBool(bool(v)), raised |-> FALSE] : v \in q.found }

\* A plausible slip: "if row and row[0]", which takes a stored False for no
\* entry.
get_cache_truthy(db, hash_key, io) ==
  LET q == sql_select(db, hash_key, io)
  IN  IF q.raised \/ q.found = {}
        THEN { [db |-> db, value |-> "None", raised |-> FALSE] }
        ELSE { [db |-> db, value |-> IF bool(v) THEN "True" ELSE "None",
                raised |-> FALSE] : v \in q.found }

\* get_cache after its hash is computed: the possible outcomes. fetchone()
\* takes one of the rows selected; an sqlite3 error is printed and None returned.
get_cache(db, hash_key, io) ==
  LET q == sql_select(db, hash_key, io)
  IN  IF q.raised \/ q.found = {}
        THEN { [db |-> db, value |-> "None", raised |-> FALSE] }
        ELSE { [db |-> db, value |-> PyBool(bool(v)), raised |-> FALSE] : v \in q.found }

\* A plausible slip: the row is written before the failure is met and the
\* connection's rollback is lost.
set_cache_partial(db, hash_key, result, timestamp, io) ==
  IF ~db.tableExists
    THEN [db |-> db, committed |-> FALSE, raised |-> FALSE]
    ELSE [db |-> [db EXCEPT !.rows =
                    sql_insert_or_replace(db.rows,
                      [hash_key |-> hash_key, result |-> int(result),
                       timestamp |-> timestamp])],
          committed |-> io = "ok", raised |-> FALSE]

\* A plausible slip: a set_cache that creates the table it misses.
set_cache_creating(db, hash_key, result, timestamp, io) ==
  IF io # "ok"
    THEN [db |-> db, committed |-> FALSE, raised |-> FALSE]
    ELSE [db |-> [tableExists |-> TRUE,
                  rows |-> sql_insert_or_replace(db.rows,
                             [hash_key |-> hash_key, result |-> int(result),
                              timestamp |-> timestamp])],
          committed |-> TRUE, raised |-> FALSE]

\* set_cache after its hash is computed. The INSERT OR REPLACE and the commit
\* are one transaction: on an sqlite3 error the connection rolls back, the
\* error is printed and the call returns.
set_cache(db, hash_key, result, timestamp, io) ==
  IF io # "ok" \/ ~db.tableExists
    THEN [db |-> db, committed |-> FALSE, raised |-> FALSE]
    ELSE [db |-> [db EXCEPT !.rows =
                    sql_insert_or_replace(db.rows,
                      [hash_key |-> hash_key, result |-> int(result),
                       timestamp |-> timestamp])],
          committed |-> TRUE, raised |-> FALSE]

\* The query content a call is about, told apart without hashing: how often
\* each statement occurs among the premises, and the conclusion.
CacheStatements == { Unit.A, Unit.AimpB }
BagOf(premises) ==
  [ st \in CacheStatements |-> Cardinality({ i \in 1..Len(premises) : premises[i] = st }) ]
Content(q) == [bag |-> BagOf(q.premises), conclusion |-> q.conclusion]

NoContent == [bag |-> [st \in CacheStatements |-> 0], conclusion |-> << >>]
NoEvent ==
  [op |-> "none", content |-> NoContent, value |-> "None", io |-> "ok",
   raised |-> FALSE, committed |-> FALSE, replaced |-> FALSE]

TheDb == [tableExists |-> tableExists, rows |-> rows]

\* The prove_logic calls that run at the same time, and a call that has not
\* begun.
NumCalls == 2
NoSession ==
  [phase |-> "idle", premises |-> << >>, conclusion |-> << >>,
   declarations |-> None, aliases |-> None, locals_dict |-> << >>,
   solver |-> << >>, i |-> 0, returned |-> "None"]

\* No connection has a transaction open and prove_logic has not been called.
NoRow == [hash_key |-> NoDigest, result |-> 0, timestamp |-> 0]
InitConnVars ==
  /\ lock = 0
  /\ pending = [p \in Connections |-> NoRow]
  /\ everSet = {}
  /\ runs = << >>
  /\ solver = << >>
  /\ call = [phase |-> "idle", premises |-> << >>, conclusion |-> << >>,
             declarations |-> Dict(<< >>), aliases |-> Dict(<< >>), i |-> 0,
             tokens |-> {}]
  /\ symbol_table = << >>
  /\ sessions = [p \in 1..NumCalls |-> NoSession]
  /\ responses = << >>

InitCacheVars ==
  /\ tableExists = TRUE
  /\ rows = {}
  /\ now = 0
  /\ event = NoEvent
  /\ written = {}
  /\ InitConnVars

\* The state after Z3Cache(db_path) on a new file: _init_db has run, and
\* either created the table or printed its error.
Init ==
  /\ hargs = [i \in 1..2 |-> [premises |-> << >>, conclusion |-> << >>,
                               declarations |-> None, aliases |-> None]]
  /\ hdigest = [i \in 1..2 |-> NoDigest]
  /\ tableExists \in BOOLEAN
  /\ rows = {}
  /\ now = 0
  /\ event = NoEvent
  /\ written = {}
  /\ InitConnVars

\* cache._init_db()
InitDb(io) ==
  LET db == _init_db(TheDb, io)
  IN  /\ tableExists' = db.tableExists
      /\ rows' = db.rows
      /\ event' = [NoEvent EXCEPT !.op = "init", !.io = io]
      /\ UNCHANGED << now, written, hashVars, connVars, proveVars >>

\* os.remove(db_path), as the tests do before a run: the table goes with the file.
RemoveFile ==
  /\ tableExists' = FALSE
  /\ rows' = {}
  /\ written' = {}
  /\ event' = [NoEvent EXCEPT !.op = "remove"]
  /\ UNCHANGED << now, hashVars, connVars, proveVars >>

\* Time passes.
Tick ==
  /\ now < MaxTime
  /\ now' = now + 1
  /\ event' = [NoEvent EXCEPT !.op = "tick"]
  /\ UNCHANGED << tableExists, rows, written, hashVars, connVars, proveVars >>

\* cache.get_cache(premises, conclusion, declarations, aliases)
GetCache(q, hints, io) ==
  LET hash_key == HashTable[<< q, hints >>]
  IN  \E out \in get_cache(TheDb, hash_key, io) :
        /\ tableExists' = out.db.tableExists
        /\ rows' = out.db.rows
        /\ event' = [op |-> "get", content |-> Content(q), value |-> out.value,
                     io |-> io, raised |-> out.raised, committed |-> FALSE,
                     replaced |-> FALSE]
        /\ UNCHANGED << now, written, hashVars, connVars, proveVars >>

\* cache.set_cache(premises, conclusion, declarations, aliases, result)
SetCache(q, hints, result, io) ==
  LET hash_key == HashTable[<< q, hints >>]
      out == set_cache(TheDb, hash_key, result, now, io)
  IN  /\ tableExists' = out.db.tableExists
      /\ rows' = out.db.rows
      /\ written' = IF out.committed
                      THEN { w \in written : w.content # Content(q) }
                             \cup { [content |-> Content(q), result |-> result] }
                      ELSE written
      /\ event' = [op |-> "set", content |-> Content(q), value |-> PyBool(result),
                   io |-> io, raised |-> out.raised, committed |-> out.committed,
                   replaced |-> out.committed
                                /\ \E r \in rows : r.hash_key = hash_key]
      /\ UNCHANGED << now, hashVars, connVars, proveVars >>

Next ==
  \/ \E io \in IoOutcomes : InitDb(io)
  \/ RemoveFile
  \/ Tick
  \/ \E q \in CacheQueries, h \in CacheHints, io \in IoOutcomes :
        GetCache(q, h, io)
  \/ \E q \in CacheQueries, h \in CacheHints, result \in BOOLEAN,
        io \in IoOutcomes : SetCache(q, h, result, io)

Spec == Init /\ [][Next]_vars

(***************************************************************************)
(* Properties of the store under Spec                                      *)
(***************************************************************************)

\* The verdict the history holds for a query content, as get_cache would
\* return it; "None" when no set_cache for it has committed.
Expected(content) ==
  IF \E w \in written : w.content = content
    THEN PyBool((CHOOSE w \in written : w.content = content).result)
    ELSE "None"

\* The digests under which calls about a content reach the store.
Contents == { Content(q) : q \in CacheQueries }
KeysOf ==
  [ content \in Contents |->
      { HashTable[<< q, h >>] :
          q \in { x \in CacheQueries : Content(x) = content }, h \in CacheHints } ]
RowsOf(content) == { r \in rows : r.hash_key \in KeysOf[content] }

\* C3 (as claimed): every get_cache returns the verdict of the most recent
\* committed set_cache with the same premises (as a multiset) and conclusion,
\* whatever declarations and aliases either call passed, and None when there
\* is none.
C3_Claimed == event.op = "get" => event.value = Expected(event.content)

\* C3 (amended): the same for every get_cache whose store read succeeds; a
\* get_cache whose read fails returns None.
C3_GetReturnsLastWrite ==
  event.op = "get" =>
    event.value = (IF event.io = "ok" THEN Expected(event.content) ELSE "None")

\* A hit on a verdict of False stored for the content asked for.
C3_Witness ==
  /\ event.op = "get" /\ event.io = "ok" /\ event.value = "False"
  /\ \E w \in written : w.content = event.content /\ ~w.result
  /\ Cardinality(written) > 1

\* C4: the store never holds two rows for one identity, and an identity for
\* which a set_cache has committed holds exactly one row.
C4_OneRowPerIdentity ==
  \A content \in Contents :
    /\ Cardinality(RowsOf(content)) <= 1
    /\ (\E w \in written : w.content = content)
         => Cardinality(RowsOf(content)) = 1

\* A set_cache that committed over an earlier row of the same identity.
C4_Witness ==
  /\ event.op = "set" /\ event.committed /\ event.replaced
  /\ Cardinality(RowsOf(event.content)) = 1

\* C7: a get_cache step leaves the table and every row as they were, starts
\* no proof (the solver is reached through prove_logic only), does not raise,
\* and returns None for an identity without a row.
C7_GetIsPureRead ==
  [][ event'.op = "get" =>
        /\ rows' = rows
        /\ runs' = runs
        /\ solver' = solver
        /\ call' = call
        /\ symbol_table' = symbol_table
        /\ sessions' = sessions
        /\ responses' = responses
        /\ tableExists' = tableExists
        /\ ~event'.raised
        /\ ((\A r \in rows : r.hash_key \notin KeysOf[event'.content])
              => event'.value = "None") ]_vars

\* A miss on a store that holds rows for other identities.
C7_Witness ==
  /\ event.op = "get" /\ event.io = "ok" /\ event.value = "None"
  /\ rows # {} /\ RowsOf(event.content) = {}

\* C8: a get_cache whose store read fails returns None, a set_cache whose
\* store write fails leaves the table and its rows as they were, and neither
\* raises.
C8_FailuresAreSwallowed ==
  [][ /\ (event'.op = "get" /\ (event'.io = "error" \/ ~tableExists))
           => (event'.value = "None" /\ ~event'.raised)
      /\ (event'.op = "set" /\ (event'.io = "error" \/ ~tableExists))
           => (rows' = rows /\ tableExists' = tableExists /\ ~event'.raised)
    ]_vars

\* A failed write about an identity that holds a row with the other verdict.
C8_Witness ==
  /\ event.op = "set" /\ event.io = "error" /\ ~event.committed
  /\ \E r \in RowsOf(event.content) : PyBool(bool(r.result)) # event.value

\* C29: only _init_db creates the table; while the table is missing, a
\* set_cache stores nothing and raises nothing, and a get_cache returns
\* None, whatever the outcome of their store access.
C29_MissingTableDisablesCache ==
  [][/\ (~tableExists /\ tableExists') => event'.op = "init"
     /\ (~tableExists /\ event'.op = "set")
          => /\ rows' = rows /\ written' = written /\ ~tableExists'
             /\ ~event'.committed /\ ~event'.raised
     /\ (~tableExists /\ event'.op = "get")
          => /\ event'.value = "None" /\ ~event'.raised
             /\ rows' = rows /\ ~tableExists']_vars

\* A get_cache with no store error has run on a store without its table.
C29_Witness ==
  /\ ~tableExists
  /\ event.op = "get" /\ event.io = "ok" /\ event.value = "None"

\* C30 (as claimed): get_cache returns False exactly when the store holds a
\* row with result 0 for the identity, True exactly when it holds one with
\* another result, and None exactly when it holds none or the read failed.
C30_Claimed ==
  event.op = "get" =>
    /\ event.value = "False" <=> \E r \in RowsOf(event.content) : r.result = 0
    /\ event.value = "True" <=> \E r \in RowsOf(event.content) : r.result # 0
    /\ event.value = "None" <=> (RowsOf(event.content) = {} \/ event.io # "ok")

\* C30 (amended): the same with False and True returned only by a read
\* that succeeded.
C30_FalseIsNotAbsent ==
  event.op = "get" =>
    /\ event.value = "False"
         <=> (event.io = "ok" /\ \E r \in RowsOf(event.content) : r.result = 0)
    /\ event.value = "True"
         <=> (event.io = "ok" /\ \E r \in RowsOf(event.content) : r.result # 0)
    /\ event.value = "None" <=> (RowsOf(event.content) = {} \/ event.io # "ok")

\* A get_cache has returned False from a row with result 0.
C30_Witness ==
  /\ event.op = "get" /\ event.value = "False"
  /\ \E r \in RowsOf(event.content) : r.result = 0

(***************************************************************************)
(* Concurrent calls: each call runs on its own connection, and SQLite      *)
(* serialises the transactions on the file                                 *)
(***************************************************************************)

\* Calls about one identity: the test's query and its permutation.
SharedQueries == { q \in CacheQueries : Content(q) = Content([premises |-> << Unit.AimpB, Unit.A >>, conclusion |-> Unit.B]) }

\* A plausible slip: the write is not one transaction, and the verdict lands
\* in a row that keeps the timestamp of an earlier write.
sql_commit_torn(table, row) ==
  IF \E r \in table : r.hash_key = row.hash_key
    THEN { IF r.hash_key = row.hash_key THEN [r EXCEPT !.result = row.result] ELSE r :
             r \in table }
    ELSE table \cup { row }

\* conn.commit(): the transaction's row reaches the table in one step.
sql_commit(table, row) == sql_insert_or_replace(table, row)

\* get_cache on connection p: its SELECT reads the committed rows.
ConnGet(p, q, hints, io) ==
  LET hash_key == HashTable[<< q, hints >>]
  IN  /\ lock # p
      /\ \E out \in get_cache(TheDb, hash_key, io) :
            /\ tableExists' = out.db.tableExists
            /\ rows' = out.db.rows
            /\ event' = [op |-> "get", content |-> Content(q), value |-> out.value,
                         io |-> io, raised |-> out.raised, committed |-> FALSE,
                         replaced |-> FALSE]
      /\ UNCHANGED << now, written, hashVars, connVars, proveVars >>

\* set_cache on connection p, up to cursor.execute: the INSERT OR REPLACE
\* opens a transaction and takes the write lock. With the lock held by
\* another connection it ends in "database is locked" once the busy timeout
\* has passed; that error, like any other, is printed and the call returns.
ConnSetExecute(p, q, hints, result, io) ==
  LET hash_key == HashTable[<< q, hints >>]
      failed == io # "ok" \/ ~tableExists \/ lock # 0
      row == [hash_key |-> hash_key, result |-> int(result), timestamp |-> now]
  IN  /\ lock # p
      /\ lock' = IF failed THEN lock ELSE p
      /\ pending' = IF failed THEN pending ELSE [pending EXCEPT ![p] = row]
      /\ event' = [op |-> "execute", content |-> Content(q), value |-> PyBool(result),
                   io |-> IF failed THEN "error" ELSE "ok", raised |-> FALSE,
                   committed |-> FALSE, replaced |-> FALSE]
      /\ UNCHANGED << storeVars, written, everSet, hashVars, proveVars >>

\* set_cache on connection p, conn.commit() and the end of the with block:
\* the row is committed, or the transaction is rolled back on an error.
ConnSetCommit(p, io) ==
  /\ lock = p
  /\ lock' = 0
  /\ pending' = [pending EXCEPT ![p] = NoRow]
  /\ rows' = IF io = "ok" THEN sql_commit(rows, pending[p]) ELSE rows
  /\ everSet' = IF io = "ok" THEN everSet \cup { PyBool(bool(pending[p].result)) }
                ELSE everSet
  /\ \E content \in Contents :
       /\ pending[p].hash_key \in KeysOf[content]
       /\ written' = IF io = "ok"
                       THEN { w \in written : w.content # content }
                              \cup { [content |-> content, result |-> bool(pending[p].result)] }
                       ELSE written
       /\ event' = [op |-> "set", content |-> content,
                    value |-> PyBool(bool(pending[p].result)), io |-> io,
                    raised |-> FALSE, committed |-> io = "ok",
                    replaced |-> io = "ok"
                                 /\ \E r \in rows : r.hash_key = pending[p].hash_key]
  /\ UNCHANGED << tableExists, now, hashVars, proveVars >>

ConnTick ==
  /\ now < MaxTime
  /\ now' = now + 1
  /\ event' = [NoEvent EXCEPT !.op = "tick"]
  /\ UNCHANGED << tableExists, rows, written, hashVars, connVars, proveVars >>

InitConn ==
  /\ hargs = [i \in 1..2 |-> [premises |-> << >>, conclusion |-> << >>,
                               declarations |-> None, aliases |-> None]]
  /\ hdigest = [i \in 1..2 |-> NoDigest]
  /\ InitCacheVars

NextConn ==
  \/ ConnTick
  \/ \E p \in Connections, q \in SharedQueries, h \in CacheHints, io \in IoOutcomes :
        ConnGet(p, q, h, io)
  \/ \E p \in Connections, q \in SharedQueries, h \in CacheHints,
        result \in BOOLEAN, io \in IoOutcomes : ConnSetExecute(p, q, h, result, io)
  \/ \E p \in Connections, io \in IoOutcomes : ConnSetCommit(p, io)

SpecConn == InitConn /\ [][NextConn]_vars

\* C9: under every interleaving of get_cache and set_cache calls about one
\* identity, each row that reaches the table is exactly the row one open
\* set_cache wrote (no torn entry); the table never holds two rows for the
\* identity; once no call is in flight and a set_cache has committed, it
\* holds one row, with the verdict committed last; and every get_cache
\* returned None or a verdict that some set_cache committed.
C9_NoTornOrDuplicateRow ==
  [][ /\ rows' \subseteq rows \cup { pending[p] : p \in { c \in Connections : lock = c } }
      /\ \A content \in Contents :
           /\ Cardinality({ r \in rows' : r.hash_key \in KeysOf[content] }) <= 1
           /\ (lock' = 0 /\ \E w \in written' : w.content = content)
                => \E r \in rows' :
                      /\ r.hash_key \in KeysOf[content]
                      /\ \E w \in written' : w.content = content /\ w.result = bool(r.result)
      /\ event'.op = "get" => event'.value \in { "None" } \cup everSet'
    ]_vars

\* A commit that replaced the row another connection's set_cache committed
\* at an earlier time, with the other verdict.
C9_Witness ==
  /\ event.op = "set" /\ event.committed /\ event.replaced /\ lock = 0
  /\ everSet = { "True", "False" }
  /\ \E r \in rows : r.timestamp = MaxTime /\ PyBool(bool(r.result)) = event.value

(***************************************************************************)
(* prove_logic: scanning the statement text                                *)
(***************************************************************************)

\* Names and words prove_logic compares with; s_add is "s.add" and
\* SolverCall is "Solver()".
Word ==
  [ Predicate |-> << "P", "r", "e", "d", "i", "c", "a", "t", "e" >>,
    Function |-> << "F", "u", "n", "c", "t", "i", "o", "n" >>,
    Const |-> << "C", "o", "n", "s", "t" >>,
    Object |-> << "O", "b", "j", "e", "c", "t" >>,
    s |-> << "s" >>,
    True |-> << "T", "r", "u", "e" >>,
    False |-> << "F", "a", "l", "s", "e" >>,
    None |-> << "N", "o", "n", "e" >>,
    And |-> << "A", "n", "d" >>,
    Or |-> << "O", "r" >>,
    Not |-> << "N", "o", "t" >>,
    Implies |-> << "I", "m", "p", "l", "i", "e", "s" >>,
    ForAll |-> << "F", "o", "r", "A", "l", "l" >>,
    Exists |-> << "E", "x", "i", "s", "t", "s" >>,
    BoolSort |-> << "B", "o", "o", "l", "S", "o", "r", "t" >>,
    Solver |-> << "S", "o", "l", "v", "e", "r" >>,
    DeclareSort |-> << "D", "e", "c", "l", "a", "r", "e", "S", "o", "r", "t" >>,
    sys |-> << "s", "y", "s" >>,
    traceback |-> << "t", "r", "a", "c", "e", "b", "a", "c", "k" >>,
    s_add |-> << "s", ".", "a", "d", "d" >>,
    SolverCall |-> << "S", "o", "l", "v", "e", "r", "(", ")" >> ]

\* Character classes of the regular expressions and of the Python lexer:
\* str.islower() of a letter, a digit, [a-zA-Z_] and \w.
IsLower(ch) == ord(ch) \in 97..122
IsDigit(ch) == ord(ch) \in 48..57
IsIdentStart(ch) == ord(ch) \in (65..90) \cup (97..122) \cup { 95 }
IsWordChar(ch) == ord(ch) \in (65..90) \cup (97..122) \cup { 95 } \cup (48..57)
IsSpace(ch) == ch = " "

\* text[i..] starts with sub.
StartsAt(text, i, sub) ==
  /\ i + Len(sub) - 1 <= Len(text)
  /\ \A k \in 1..Len(sub) : text[i + k - 1] = sub[k]

\* sub in text
Contains(text, sub) == \E i \in 1..(Len(text) + 1) : StartsAt(text, i, sub)

\* The end of the longest run of characters of class \w starting at i.
RECURSIVE WordEnd(_, _)
WordEnd(text, i) ==
  IF i < Len(text) /\ IsWordChar(text[i + 1]) THEN WordEnd(text, i + 1) ELSE i

\* set(re.findall(r'[a-zA-Z_][a-zA-Z0-9_]*', text)), scanning from i: the
\* token text[i..end] and the tokens after it.
RECURSIVE FindTokens(_, _)
TokenAndRest(text, i, end) ==
  { SubSeq(text, i, end) } \cup FindTokens(text, end + 1)

FindTokens(text, i) ==
  IF i > Len(text) THEN {}
  ELSE IF IsIdentStart(text[i]) THEN TokenAndRest(text, i, WordEnd(text, i))
  ELSE FindTokens(text, i + 1)

\* The first position at or after i holding a character other than a space.
RECURSIVE SkipSpaces(_, _)
SkipSpaces(text, i) ==
  IF i <= Len(text) /\ IsSpace(text[i]) THEN SkipSpaces(text, i + 1) ELSE i

\* str.strip() leaves something.
StripsToNonEmpty(str) == \E i \in 1..Len(str) : ~IsSpace(str[i])

\* str.count(',')
CountCommas(str) == Cardinality({ i \in 1..Len(str) : str[i] = "," })

\* The least of a non-empty set of positions.
Leftmost(places) == CHOOSE x \in places : \A y \in places : x <= y

\* \s*\((.*?)\) at the end of the key: "(" at open, and a ")" after it.
OpensCall(text, open) ==
  /\ open <= Len(text)
  /\ text[open] = "("
  /\ \E close \in (open + 1)..Len(text) : text[close] = ")"

\* \b{symbol_key}\s*\((.*?)\) matches at i, for a symbol_key that is an
\* identifier: the key starts at a word boundary.
MatchesAt(text, i, symbol_key) ==
  /\ StartsAt(text, i, symbol_key)
  /\ (i = 1 \/ ~IsWordChar(text[i - 1]))
  /\ OpensCall(text, SkipSpaces(text, i + Len(symbol_key)))

\* The match whose "(" is at open: group(1) is the text up to the first ")".
MatchFrom(text, open) ==
  [matched |-> TRUE,
   group1 |-> SubSeq(text, open + 1,
                     Leftmost({ c \in (open + 1)..Len(text) : text[c] = ")" }) - 1)]

\* The leftmost of the places where the pattern matches, None without one.
LeftmostMatch(symbol_key, text, places) ==
  IF places = {} THEN [matched |-> FALSE, group1 |-> << >>]
  ELSE MatchFrom(text, SkipSpaces(text, Leftmost(places) + Len(symbol_key)))

\* re.search(rf'\b{symbol_key}\s*\((.*?)\)', text)
re_search(symbol_key, text) ==
  LeftmostMatch(symbol_key, text,
                { i \in 1..Len(text) : MatchesAt(text, i, symbol_key) })

\* all_text = " ".join(premises) + " " + conclusion
AllText(premises, conclusion) == Join(<< " " >>, premises) \o << " " >> \o conclusion

(***************************************************************************)
(* prove_logic: the symbol table (locals_dict) and register_symbol         *)
(***************************************************************************)

\* The values locals_dict holds: the sort Object, the Solver, a relation
\* Function(name, Object, .., Object, BoolSort()) and a constant
\* Const(name, Object).
SortValue == [kind |-> "sort", name |-> Word.Object, arity |-> 0]
SolverValue == [kind |-> "solver", name |-> << >>, arity |-> 0]
FunctionValue(real_name, arity) == [kind |-> "func", name |-> real_name, arity |-> arity]
ConstValue(real_name) == [kind |-> "const", name |-> real_name, arity |-> 0]

\* key in dict, and dict.get(key) with << >> for None
DictKeys(d) == { d.items[i][1] : i \in 1..Len(d.items) }
DictGet(d, key) ==
  IF key \in DictKeys(d)
    THEN d.items[CHOOSE i \in 1..Len(d.items) : d.items[i][1] = key][2]
    ELSE << >>

\* The arity read off the text, with 0 where no application is found.
ArityOf_nullary(matcher, arity_of_empty) ==
  IF matcher.matched
    THEN IF StripsToNonEmpty(matcher.group1)
           THEN CountCommas(matcher.group1) + 1
           ELSE arity_of_empty
    ELSE 0

\* arity = 1; if matcher: if args_str.strip(): arity = args_str.count(',') + 1
\* and, in the hinted branch only, else: arity = 0.
ArityOf(matcher, arity_of_empty) ==
  IF matcher.matched
    THEN IF StripsToNonEmpty(matcher.group1)
           THEN CountCommas(matcher.group1) + 1
           ELSE arity_of_empty
    ELSE 1

\* The arity the hinted branch reads off the text: that of the first
\* application found, 0 for an empty argument list, 1 without a match.
HintedArity(symbol_key, all_text) == ArityOf(re_search(symbol_key, all_text), 0)

\* The arity the inferring branch reads off the text: as above, but an empty
\* argument list leaves the default 1.
InferredArity(symbol_key, all_text) == ArityOf(re_search(symbol_key, all_text), 1)

\* locals_dict[symbol_key] = value
Bind(locals_dict, symbol_key, value) ==
  [raised |-> FALSE, locals |-> (symbol_key :> value) @@ locals_dict]

\* The object created when the case of the name is not looked at.
CreateSymbol_caseblind(locals_dict, symbol_key, real_name, type_hint, all_text) ==
  IF type_hint = Word.Predicate \/ type_hint = Word.Function
    THEN Bind(locals_dict, symbol_key,
              FunctionValue(real_name, HintedArity(symbol_key, all_text)))
  ELSE IF type_hint = Word.Const \/ type_hint = Word.Object
    THEN Bind(locals_dict, symbol_key, ConstValue(real_name))
  ELSE IF symbol_key = << >>
    THEN [raised |-> TRUE, locals |-> locals_dict]
  ELSE Bind(locals_dict, symbol_key,
            FunctionValue(real_name, InferredArity(symbol_key, all_text)))

\* The object register_symbol creates under real_name.
CreateSymbol(locals_dict, symbol_key, real_name, type_hint, all_text) ==
  IF type_hint = Word.Predicate \/ type_hint = Word.Function
    THEN Bind(locals_dict, symbol_key,
              FunctionValue(real_name, HintedArity(symbol_key, all_text)))
  ELSE IF type_hint = Word.Const \/ type_hint = Word.Object
    THEN Bind(locals_dict, symbol_key, ConstValue(real_name))
  ELSE IF symbol_key = << >>
    THEN [raised |-> TRUE, locals |-> locals_dict]
  ELSE IF IsLower(symbol_key[1])
    THEN Bind(locals_dict, symbol_key, ConstValue(real_name))
  ELSE Bind(locals_dict, symbol_key,
            FunctionValue(real_name, InferredArity(symbol_key, all_text)))

\* register_symbol without its first line.
register_symbol_rebinding(locals_dict, symbol_key, z3_name, type_hint, all_text) ==
  CreateSymbol(locals_dict, symbol_key,
               IF z3_name # << >> THEN z3_name ELSE symbol_key,
               type_hint, all_text)

\* register_symbol(symbol_key, z3_name, type_hint); << >> stands for None.
\* raised: symbol_key[0] of an empty key.
register_symbol(locals_dict, symbol_key, z3_name, type_hint, all_text) ==
  IF symbol_key \in DOMAIN locals_dict
    THEN [raised |-> FALSE, locals |-> locals_dict]
    ELSE CreateSymbol(locals_dict, symbol_key,
                      IF z3_name # << >> THEN z3_name ELSE symbol_key,
                      type_hint, all_text)

\* for alias_key, full_name in aliases.items(): register_symbol(alias_key,
\* z3_name=full_name, type_hint=declarations.get(alias_key)), from item i on.
RECURSIVE RegisterAliases(_, _, _, _, _)
RegisterAliases(state, aliases, declarations, i, all_text) ==
  IF state.raised \/ i > Len(aliases.items) THEN state
  ELSE RegisterAliases(
         register_symbol(state.locals, aliases.items[i][1], aliases.items[i][2],
                         DictGet(declarations, aliases.items[i][1]), all_text),
         aliases, declarations, i + 1, all_text)

\* for decl_key, decl_type in declarations.items(): if decl_key not in
\* aliases: register_symbol(decl_key, z3_name=decl_key, type_hint=decl_type)
RECURSIVE RegisterDeclarations(_, _, _, _, _)
RegisterDeclarations(state, aliases, declarations, i, all_text) ==
  IF state.raised \/ i > Len(declarations.items) THEN state
  ELSE RegisterDeclarations(
         IF declarations.items[i][1] \in DictKeys(aliases) THEN state
         ELSE register_symbol(state.locals, declarations.items[i][1],
                              declarations.items[i][1], declarations.items[i][2],
                              all_text),
         aliases, declarations, i + 1, all_text)

\* The names of globals() that statements can meet: what "from z3 import *"
\* and the module's own imports and definitions bind.
ModuleGlobals ==
  { Word.And, Word.Or, Word.Not, Word.Implies, Word.ForAll, Word.Exists, Word.BoolSort, Word.Solver,
    Word.DeclareSort, Word.Function, Word.Const, Word.sys, Word.traceback }

\* reserved = set(globals().keys()) | {'True', 'False', 'None', 'And', 'Or',
\*            'Not', 'Implies', 'ForAll', 'Exists', 'Object', 'BoolSort'}
Reserved ==
  ModuleGlobals \cup { Word.True, Word.False, Word.None, Word.And, Word.Or, Word.Not, Word.Implies, Word.ForAll,
                       Word.Exists, Word.Object, Word.BoolSort }

\* hasattr(sys.modules[__name__], token): the module's attributes are its globals.
hasattr_module(token) == token \in ModuleGlobals

\* if token not in locals_dict and token not in reserved and not
\* hasattr(..): register_symbol(token)
RegisterToken(state, token, all_text) ==
  IF token \notin DOMAIN state.locals /\ token \notin Reserved
       /\ ~hasattr_module(token)
    THEN register_symbol(state.locals, token, << >>, << >>, all_text)
    ELSE state

\* for token in potential_tokens: .. The tokens are distinct and none changes
\* what another is bound to, so the order of the set does not matter.
RECURSIVE RegisterTokens(_, _, _)
RegisterRest(state, tokens, token, all_text) ==
  RegisterTokens(RegisterToken(state, token, all_text), tokens \ { token }, all_text)

RegisterTokens(state, tokens, all_text) ==
  IF state.raised \/ tokens = {} THEN state
  ELSE RegisterRest(state, tokens, CHOOSE t \in tokens : TRUE, all_text)

\* if d is None: d = {}
OrEmpty(d) == IF d = None THEN Dict(<< >>) ELSE d

\* locals_dict['Object'] = obj_sort; locals_dict['s'] = solver
StartTable ==
  [raised |-> FALSE, locals |-> (Word.Object :> SortValue) @@ (Word.s :> SolverValue)]

\* Steps 2 and 3 of the simplified mode: the aliases, the declarations and
\* the discovered tokens are registered, in this order.
RegisterAll(declarations, aliases, all_text) ==
  RegisterTokens(
    RegisterDeclarations(
      RegisterAliases(StartTable, aliases, declarations, 1, all_text),
      aliases, declarations, 1, all_text),
    FindTokens(all_text, 1), all_text)

\* Steps 1 to 3 of the simplified mode.
BuildSymbolTable(premises, conclusion, declarations, aliases) ==
  RegisterAll(OrEmpty(declarations), OrEmpty(aliases),
              AllText(premises, conclusion))

(***************************************************************************)
(* prove_logic: eval(statement, globals(), locals_dict)                    *)
(*                                                                         *)
(* The statements modelled are Python expressions built from names,        *)
(* integer literals, parentheses and calls f(a, b, ..). A parse result is  *)
(* [ok, node, next]: the tree read and the position after it.              *)
(***************************************************************************)

ParseFailure == [ok |-> FALSE, node |-> [type |-> "none"], next |-> 0]
Parsed(node, next) == [ok |-> TRUE, node |-> node, next |-> next]

\* The end of the run of digits starting at i.
RECURSIVE NumberEnd(_, _)
NumberEnd(text, i) ==
  IF i < Len(text) /\ IsDigit(text[i + 1]) THEN NumberEnd(text, i + 1) ELSE i

RECURSIVE ParseExpr(_, _)
RECURSIVE ParseTrailers(_, _, _)
RECURSIVE ParseArgs(_, _, _)

\* The name text[j..end].
NameAt(text, j, end) == Parsed([type |-> "name", id |-> SubSeq(text, j, end)], end + 1)

\* The integer literal ending at end; a letter right after it is an error.
NumberAt(text, end) ==
  IF end < Len(text) /\ IsWordChar(text[end + 1]) THEN ParseFailure
  ELSE Parsed([type |-> "int"], end + 1)

\* The ")" that closes a parenthesised expression, at or after k.
ClosedAt(text, inner, k) ==
  IF k <= Len(text) /\ text[k] = ")" THEN Parsed(inner.node, k + 1)
  ELSE ParseFailure

Closed(text, inner) ==
  IF inner.ok THEN ClosedAt(text, inner, SkipSpaces(text, inner.next))
  ELSE ParseFailure

\* A name, an integer literal or a parenthesised expression, at j.
AtomAt(text, j) ==
  IF j > Len(text) THEN ParseFailure
  ELSE IF IsIdentStart(text[j]) THEN NameAt(text, j, WordEnd(text, j))
  ELSE IF IsDigit(text[j]) THEN NumberAt(text, NumberEnd(text, j))
  ELSE IF text[j] = "(" THEN Closed(text, ParseExpr(text, j + 1))
  ELSE ParseFailure

ParseAtom(text, i) == AtomAt(text, SkipSpaces(text, i))

\* An expression starting at or after i: an atom and the calls made on it.
TrailersOf(text, atom) ==
  IF atom.ok THEN ParseTrailers(text, atom.node, atom.next) ELSE ParseFailure

ParseExpr(text, i) == TrailersOf(text, ParseAtom(text, i))

\* The call of node on the arguments read.
CallOf(text, node, args) ==
  IF args.ok
    THEN ParseTrailers(text, [type |-> "call", fn |-> node, args |-> args.node],
                       args.next)
    ELSE ParseFailure

\* Zero or more argument lists after an expression that ends before i.
TrailersAt(text, node, i, j) ==
  IF j <= Len(text) /\ text[j] = "("
    THEN CallOf(text, node, ParseArgs(text, j + 1, << >>))
    ELSE Parsed(node, i)

ParseTrailers(text, node, i) == TrailersAt(text, node, i, SkipSpaces(text, i))

\* After an argument: a comma and more arguments, or the closing parenthesis.
AfterArg(text, acc, k) ==
  IF k > Len(text) THEN ParseFailure
  ELSE IF text[k] = "," THEN ParseArgs(text, k + 1, acc)
  ELSE IF text[k] = ")" THEN Parsed(acc, k + 1)
  ELSE ParseFailure

ArgThen(text, acc, arg) ==
  IF arg.ok THEN AfterArg(text, Append(acc, arg.node), SkipSpaces(text, arg.next))
  ELSE ParseFailure

\* The arguments up to the closing parenthesis; a trailing comma is allowed.
ArgsAt(text, acc, j) ==
  IF j > Len(text) THEN ParseFailure
  ELSE IF text[j] = ")" THEN Parsed(acc, j + 1)
  ELSE ArgThen(text, acc, ParseExpr(text, j))

ParseArgs(text, i, acc) == ArgsAt(text, acc, SkipSpaces(text, i))

\* compile(statement, .., 'eval'): the whole text is one expression.
WholeOf(text, tree) ==
  IF tree.ok /\ SkipSpaces(text, tree.next) > Len(text) THEN tree ELSE ParseFailure

Parse(text) == WholeOf(text, ParseExpr(text, 1))

\* Values of the evaluation besides those of locals_dict: a Python bool, an
\* int, one of z3's connectives, another object, and a z3 formula of sort Bool.
PyBoolValue(b) == [kind |-> "pybool", val |-> b]
IntValue == [kind |-> "int"]
BuiltinValue(name) == [kind |-> "builtin", name |-> name]
OtherValue == [kind |-> "other"]
FormulaValue(f) == [kind |-> "formula", f |-> f]
Raised == [raised |-> TRUE, val |-> OtherValue]
Returned(v) == [raised |-> FALSE, val |-> v]

\* BoolSort().cast(v) succeeds: a z3 Bool expression or a Python bool.
BoolCastable(v) == v.kind \in { "formula", "pybool" }
AsFormula(v) == IF v.kind = "pybool" THEN [op |-> "lit", val |-> v.val] ELSE v.f

\* A name: True, False and None are keywords, then locals_dict, then globals().
LookupName(id, locals_dict) ==
  IF id = Word.True THEN Returned(PyBoolValue(TRUE))
  ELSE IF id = Word.False THEN Returned(PyBoolValue(FALSE))
  ELSE IF id = Word.None THEN Returned(OtherValue)
  ELSE IF id \in DOMAIN locals_dict THEN Returned(locals_dict[id])
  ELSE IF id \in { Word.And, Word.Or, Word.Not, Word.Implies } THEN Returned(BuiltinValue(id))
  ELSE IF id \in ModuleGlobals THEN Returned(OtherValue)
  ELSE Raised

\* A relation applied to as many constants of sort Object as its arity.
ApplyFunction(f, args) ==
  IF Len(args) = f.arity /\ \A k \in 1..Len(args) : args[k].kind = "const"
    THEN Returned(FormulaValue(
           [op |-> "atom", pred |-> f.name,
            args |-> [k \in 1..Len(args) |-> args[k].name]]))
    ELSE Raised

\* Not, Implies, And, Or applied to arguments that cast to Bool; And and Or
\* need a z3 expression among them.
ApplyConnective(name, args) ==
  IF name = Word.Not /\ Len(args) = 1
    THEN Returned(FormulaValue([op |-> "not", args |-> << AsFormula(args[1]) >>]))
  ELSE IF name = Word.Implies /\ Len(args) = 2
    THEN Returned(FormulaValue(
           [op |-> "implies", args |-> << AsFormula(args[1]), AsFormula(args[2]) >>]))
  ELSE IF name \in { Word.And, Word.Or } /\ \E k \in 1..Len(args) : args[k].kind = "formula"
    THEN Returned(FormulaValue(
           [op |-> IF name = Word.And THEN "and" ELSE "or",
            args |-> [k \in 1..Len(args) |-> AsFormula(args[k])]]))
  ELSE Raised

\* f(*args); anything else raises: not callable, wrong number of arguments,
\* wrong sort.
Apply(f, args) ==
  IF f.kind = "func" THEN ApplyFunction(f, args)
  ELSE IF f.kind = "builtin" /\ \A k \in 1..Len(args) : BoolCastable(args[k])
    THEN ApplyConnective(f.name, args)
  ELSE Raised

RECURSIVE Eval(_, _)
RECURSIVE EvalArgs(_, _, _)

EvalCall(f, args) ==
  IF f.raised \/ args.raised THEN Raised ELSE Apply(f.val, args.val)

\* The value of an expression, or the exception it raises.
Eval(node, locals_dict) ==
  IF node.type = "name" THEN LookupName(node.id, locals_dict)
  ELSE IF node.type = "int" THEN Returned(IntValue)
  ELSE EvalCall(Eval(node.fn, locals_dict), EvalArgs(node.args, locals_dict, << >>))

\* The arguments, left to right.
EvalRest(nodes, locals_dict, acc, v) ==
  IF v.raised THEN [raised |-> TRUE, val |-> acc]
  ELSE EvalArgs(Tail(nodes), locals_dict, Append(acc, v.val))

EvalArgs(nodes, locals_dict, acc) ==
  IF nodes = << >> THEN [raised |-> FALSE, val |-> acc]
  ELSE EvalRest(nodes, locals_dict, acc, Eval(Head(nodes), locals_dict))

EvalTree(tree, locals_dict) ==
  IF tree.ok THEN Eval(tree.node, locals_dict) ELSE Raised

\* eval(statement, globals(), locals_dict)
eval(statement, locals_dict) == EvalTree(Parse(statement), locals_dict)

(***************************************************************************)
(* prove_logic: the solver and the proof by refutation                     *)
(***************************************************************************)

\* The ground atoms of a formula.
RECURSIVE AtomsOf(_)
AtomsOf(f) ==
  IF f.op = "atom" THEN { f }
  ELSE IF f.op = "lit" THEN { }
  ELSE UNION { AtomsOf(f.args[k]) : k \in 1..Len(f.args) }

\* The truth of a formula when exactly the atoms of trueAtoms are true.
RECURSIVE Holds(_, _)
Holds(f, trueAtoms) ==
  IF f.op = "atom" THEN f \in trueAtoms
  ELSE IF f.op = "lit" THEN f.val
  ELSE IF f.op = "not" THEN ~Holds(f.args[1], trueAtoms)
  ELSE IF f.op = "implies"
    THEN Holds(f.args[1], trueAtoms) => Holds(f.args[2], trueAtoms)
  ELSE IF f.op = "and" THEN \A k \in 1..Len(f.args) : Holds(f.args[k], trueAtoms)
  ELSE \E k \in 1..Len(f.args) : Holds(f.args[k], trueAtoms)

\* solver.check() on quantifier-free assertions over uninterpreted relations;
\* the solver may also give up and answer unknown.
solver_check(assertions, gives_up) ==
  IF gives_up THEN "unknown"
  ELSE IF \E trueAtoms \in SUBSET UNION { AtomsOf(assertions[k]) : k \in 1..Len(assertions) } :
            \A k \in 1..Len(assertions) : Holds(assertions[k], trueAtoms)
    THEN "sat" ELSE "unsat"

\* What one prove_logic call did: the bool it returned, where it stopped, the
\* answer of solver.check() ("none" when it was not called) and the
\* assertions its solver held when it returned.
ProveResult(verdict, stage, result, assertions) ==
  [verdict |-> verdict, checked |-> result # "none", stage |-> stage,
   result |-> result, assertions |-> assertions]

\* The mode chosen when an empty premise list counts as plain statements.
is_simplified_when_empty(premises, declarations, aliases) ==
  \/ aliases # None
  \/ declarations # None
  \/ /\ ~\E k \in 1..Len(premises) : Contains(premises[k], Word.s_add)
     /\ ~\E k \in 1..Len(premises) : Contains(premises[k], Word.SolverCall)

\* declarations or aliases is not None, or there are premises and none holds
\* the text "s.add" or "Solver()".
is_simplified(premises, declarations, aliases) ==
  \/ aliases # None
  \/ declarations # None
  \/ /\ premises # << >>
     /\ ~\E k \in 1..Len(premises) : Contains(premises[k], Word.s_add)
     /\ ~\E k \in 1..Len(premises) : Contains(premises[k], Word.SolverCall)

\* for premise in premises: solver.add(eval(premise, ..)), up to the first
\* exception.
RECURSIVE AddPremises(_, _, _)
AddPremise(premises, locals_dict, assertions, expr) ==
  IF expr.raised \/ ~BoolCastable(expr.val)
    THEN [raised |-> TRUE, assertions |-> assertions]
    ELSE AddPremises(Tail(premises), locals_dict,
                     Append(assertions, AsFormula(expr.val)))

AddPremises(premises, locals_dict, assertions) ==
  IF premises = << >> THEN [raised |-> FALSE, assertions |-> assertions]
  ELSE AddPremise(premises, locals_dict, assertions,
                  eval(Head(premises), locals_dict))

\* Legacy mode on expression statements: exec() binds no name, so locals_dict
\* never holds 's'; the loop ends at the first exception.
RECURSIVE ExecPremises(_)
ExecPremises(premises) ==
  IF premises = << >> THEN [raised |-> FALSE]
  ELSE IF eval(Head(premises), << >>).raised THEN [raised |-> TRUE]
  ELSE ExecPremises(Tail(premises))

\* The answer of solver.check() taken for a proof.
VerdictOf_lenient(result, assertions) ==
  ProveResult(result # "sat", "check", result, assertions)

\* result = context['solver'].check(): unsat is True, sat and unknown are
\* False.
VerdictOf(result, assertions) ==
  ProveResult(result = "unsat", "check", result, assertions)

\* solver.add(negated_conclusion_expr); result = solver.check()
CheckAsserted(assertions, gives_up) ==
  VerdictOf(solver_check(assertions, gives_up), assertions)

\* negated_conclusion_expr = Not(conc_expr), then the check.
CheckNegated(assertions, conc_expr, gives_up) ==
  IF conc_expr.raised \/ ~BoolCastable(conc_expr.val)
    THEN ProveResult(FALSE, "conclusion", "none", assertions)
    ELSE CheckAsserted(
           Append(assertions, [op |-> "not", args |-> << AsFormula(conc_expr.val) >>]),
           gives_up)

\* The conclusion is evaluated, negated and checked with the premises.
ProveConclusion(conclusion, locals_dict, assertions, gives_up) ==
  CheckNegated(assertions, eval(conclusion, locals_dict), gives_up)

\* Step 4 carried on after a premise that raised.
AfterPremises_partial(conclusion, locals_dict, added, gives_up) ==
  ProveConclusion(conclusion, locals_dict, added.assertions, gives_up)

\* Step 4 has run: an exception returns False, else the conclusion is tried.
AfterPremises(conclusion, locals_dict, added, gives_up) ==
  IF added.raised THEN ProveResult(FALSE, "premise", "none", added.assertions)
  ELSE ProveConclusion(conclusion, locals_dict, added.assertions, gives_up)

\* solver = Solver(): a new solver holds no assertion.
Solver == << >>

\* Steps 1 to 3 have run: an exception returns False, else step 4.
SimplifiedMode(premises, conclusion, table, gives_up) ==
  IF table.raised THEN ProveResult(FALSE, "setup", "none", Solver)
  ELSE AfterPremises(conclusion, table.locals,
                     AddPremises(premises, table.locals, Solver), gives_up)

\* The premises are executed; no statement modelled creates a solver.
LegacyMode(premises) ==
  IF ExecPremises(premises).raised THEN ProveResult(FALSE, "premise", "none", << >>)
  ELSE ProveResult(FALSE, "no solver", "none", << >>)

\* prove_logic on a solver that answers unknown when gives_up is true.
prove_logic(premises, conclusion, declarations, aliases, gives_up) ==
  IF is_simplified(premises, declarations, aliases)
    THEN SimplifiedMode(premises, conclusion,
                        BuildSymbolTable(premises, conclusion, declarations, aliases),
                        gives_up)
    ELSE LegacyMode(premises)

(***************************************************************************)
(* Calls of prove_logic, one after the other, on a store that starts empty *)
(***************************************************************************)

\* Statements and names of test_cache_loose.py, and their like with x for s.
Text ==
  [ H |-> << "H" >>,
    M |-> << "M" >>,
    x |-> << "x" >>,
    P |-> << "P" >>,
    Hx |-> << "H", "(", "x", ")" >>,
    Mx |-> << "M", "(", "x", ")" >>,
    HxImpMx |->
      << "I", "m", "p", "l", "i", "e", "s", "(", "H", "(", "x", ")", ",",
         " ", "M", "(", "x", ")", ")" >>,
    Hs |-> << "H", "(", "s", ")" >>,
    Ms |-> << "M", "(", "s", ")" >>,
    HsImpMs |->
      << "I", "m", "p", "l", "i", "e", "s", "(", "H", "(", "s", ")", ",",
         " ", "M", "(", "s", ")", ")" >>,
    Human |-> << "H", "u", "m", "a", "n" >>,
    Mortal |-> << "M", "o", "r", "t", "a", "l" >>,
    socrates |-> << "s", "o", "c", "r", "a", "t", "e", "s" >>,
    Humanity |-> << "H", "u", "m", "a", "n", "i", "t", "y" >>,
    Mortality |-> << "M", "o", "r", "t", "a", "l", "i", "t", "y" >>,
    socrates_guy |->
      << "s", "o", "c", "r", "a", "t", "e", "s", "_", "g", "u", "y" >> ]

\* aliases_1 and aliases_2 of test_cache_loose.py
LooseHints ==
  [ aliases_1 |-> Dict(<< << Text.H, Text.Human >>, << Text.M, Text.Mortal >>,
                          << Word.s, Text.socrates >> >>),
    aliases_2 |-> Dict(<< << Text.H, Text.Humanity >>, << Text.M, Text.Mortality >>,
                          << Word.s, Text.socrates_guy >> >>) ]

MaxRuns == 2

\* The premises and conclusions passed to prove_logic.
ProveQueries ==
  { [premises |-> << Text.HsImpMs, Text.Hs >>, conclusion |-> Text.Ms],
    [premises |-> << Text.HxImpMx, Text.Hx >>, conclusion |-> Text.Mx],
    [premises |-> << Text.Hx >>, conclusion |-> Text.Hx],
    [premises |-> << Text.Hx >>, conclusion |-> Text.Mx],
    [premises |-> << Text.Mx, Text.Hs >>, conclusion |-> Text.Mx],
    [premises |-> << Text.Hx >>, conclusion |-> Text.Hs],
    [premises |-> << >>, conclusion |-> Text.Hx],
    [premises |-> << >>, conclusion |-> Word.True] }

\* The declarations and aliases passed with them.
ProveHints ==
  { [declarations |-> None, aliases |-> None],
    [declarations |-> None, aliases |-> LooseHints.aliases_1],
    [declarations |-> None, aliases |-> LooseHints.aliases_2],
    [declarations |-> None, aliases |-> Dict(<< << Text.H, Text.P >>, << Text.M, Text.P >> >>)],
    [declarations |-> None, aliases |-> Dict(<< << Text.H, Text.P >>, << Text.x, Text.P >> >>)],
    [declarations |-> Dict(<< << Text.H, Word.Predicate >>, << Text.x, Word.Const >> >>),
     aliases |-> None],
    [declarations |-> Dict(<< << Text.H, Word.Const >>, << Text.x, Word.Const >> >>),
     aliases |-> None] }

\* What prove_logic does on each of these calls.
ProveTable ==
  [q \in ProveQueries, h \in ProveHints, gives_up \in BOOLEAN |->
     prove_logic(q.premises, q.conclusion, h.declarations, h.aliases, gives_up)]

\* The test's setup: the store file is new and cache._init_db() has run.
InitProve ==
  /\ hargs = [i \in 1..2 |-> [premises |-> << >>, conclusion |-> << >>,
                               declarations |-> None, aliases |-> None]]
  /\ hdigest = [i \in 1..2 |-> NoDigest]
  /\ InitCacheVars

\* The call has returned: what it was given and what it did are on record.
Return(q, h, done) ==
  /\ runs' = Append(runs, [premises |-> q.premises, conclusion |-> q.conclusion,
                           declarations |-> h.declarations, aliases |-> h.aliases,
                           verdict |-> done.verdict, checked |-> done.checked,
                           stage |-> done.stage, result |-> done.result,
                           assertions |-> done.assertions])
  /\ solver' = done.assertions
  /\ UNCHANGED << call, symbol_table, sessions, responses >>

\* prove_logic(premises, conclusion, declarations, aliases): the call reads
\* and writes nothing of the store.
ProveLogic(q, h, gives_up) ==
  /\ Len(runs) < MaxRuns
  /\ Return(q, h, ProveTable[q, h, gives_up])
  /\ UNCHANGED << hashVars, cacheVars, connVars >>

NextProve ==
  \E q \in ProveQueries, h \in ProveHints, gives_up \in BOOLEAN : ProveLogic(q, h, gives_up)

SpecProve == InitProve /\ [][NextProve]_vars

\* Both calls were given the same premises and the same conclusion.
SameQuery ==
  /\ Len(runs) >= 2
  /\ runs[1].premises = runs[2].premises
  /\ runs[1].conclusion = runs[2].conclusion

\* C5: after two prove_logic calls on an empty store with the same premises
\* and conclusion but different aliases, the store holds exactly one row.
C5_Claimed ==
  (SameQuery /\ runs[1].aliases # runs[2].aliases) => Cardinality(rows) = 1

\* C6: the second of two identical queries returns the verdict of the first
\* from the cache, without a solver call, the first having stored it under
\* the identity of the query.
C6_Claimed ==
  (SameQuery /\ runs[1].declarations = runs[2].declarations
             /\ runs[1].aliases = runs[2].aliases)
    => /\ runs[2].verdict = runs[1].verdict
       /\ ~runs[2].checked
       /\ \E r \in rows :
            r.hash_key = _compute_hash(runs[1].premises, runs[1].conclusion,
                                       runs[1].declarations, runs[1].aliases)

\* C10: prove_logic returns the same verdict for the same premises and
\* conclusion whatever aliases and declarations come with them.
C10_Claimed ==
  (SameQuery /\ runs[1].result # "unknown" /\ runs[2].result # "unknown")
    => runs[1].verdict = runs[2].verdict

\* The call of test_cache_loose.py: its premises and conclusion, with no
\* aliases or with those of the test.
IsLooseCall(run) ==
  /\ run.premises = << Text.HsImpMs, Text.Hs >>
  /\ run.conclusion = Text.Ms
  /\ run.declarations = None
  /\ run.aliases \in { None, LooseHints.aliases_1, LooseHints.aliases_2 }

\* C11: prove_logic(["Implies(H(s), M(s))", "H(s)"], "M(s)"), with or
\* without the aliases of H, M and s, returns True.
C11_Claimed == \A k \in 1..Len(runs) : IsLooseCall(runs[k]) => runs[k].verdict

\* The call evaluated every premise and the conclusion, and asserted each
\* premise and then the negated conclusion.
AssertedAll(run) ==
  /\ Len(run.assertions) = Len(run.premises) + 1
  /\ run.assertions[Len(run.assertions)].op = "not"

Response(run) == run.verdict

\* C13: a call whose solver answered unknown returns not proven, and what
\* it returns differs from what a refuted call returns and from what a call
\* that failed to evaluate returns.
C13_Claimed ==
  \A j \in 1..Len(runs), k \in 1..Len(runs) :
    (/\ runs[j].result = "unknown"
     /\ runs[k].result = "sat" \/ runs[k].stage \in { "premise", "conclusion" })
      => ~runs[j].verdict /\ Response(runs[j]) # Response(runs[k])

\* The call stopped at a premise or at the conclusion that did not evaluate.
FailedToEvaluate(run) == run.stage \in { "premise", "conclusion" }

\* C14: a call one of whose premises or whose conclusion does not evaluate
\* returns False without a solver.check(), and a later call's solver holds
\* none of the formulas asserted before the failure: it holds one formula
\* per premise it evaluated, and the negated conclusion after them.
C14_FailedQueryLeavesNothing ==
  \A k \in 1..Len(runs) :
    /\ FailedToEvaluate(runs[k]) => ~runs[k].verdict /\ runs[k].result = "none"
    /\ Len(runs[k].assertions) <= Len(runs[k].premises) + 1
    /\ runs[k].stage = "check" => AssertedAll(runs[k])
    /\ runs[k].stage = "conclusion" => Len(runs[k].assertions) = Len(runs[k].premises)
    /\ runs[k].stage = "premise" => Len(runs[k].assertions) < Len(runs[k].premises)
    /\ \A j \in 1..k :
         (/\ runs[j].premises = runs[k].premises
          /\ runs[j].conclusion = runs[k].conclusion
          /\ runs[j].declarations = runs[k].declarations
          /\ runs[j].aliases = runs[k].aliases)
           => runs[j].assertions = runs[k].assertions

\* A call failed at its second premise with the first one asserted, and a
\* call after it reached solver.check().
C14_Witness ==
  /\ Len(runs) = 2
  /\ runs[1].stage = "premise"
  /\ runs[1].assertions # << >>
  /\ runs[2].stage = "check"

\* The symbols the call's symbol table binds.
SymbolsOf(table) ==
  { table.locals[key] : key \in { k \in DOMAIN table.locals :
                                    table.locals[k].kind \in { "func", "const" } } }

\* The call asks for one z3 name both as a relation and as an individual.
Conflicting(run) ==
  \E f \in SymbolsOf(BuildSymbolTable(run.premises, run.conclusion,
                                       run.declarations, run.aliases)),
     c \in SymbolsOf(BuildSymbolTable(run.premises, run.conclusion,
                                       run.declarations, run.aliases)) :
    f.kind = "func" /\ c.kind = "const" /\ f.name = c.name

\* C15: a call that asks for one name as two incompatible kinds fails,
\* before any solver.check(), and leaves the store as it was.
C15_Claimed ==
  \A k \in 1..Len(runs) :
    Conflicting(runs[k]) => ~runs[k].verdict /\ ~runs[k].checked /\ rows = {}

\* The call was given no premise, no declarations and no aliases.
IsBareCall(run) ==
  run.premises = << >> /\ run.declarations = None /\ run.aliases = None

Usage ==
  [ Parent |-> << "P", "a", "r", "e", "n", "t" >>,
    Tall |-> << "T", "a", "l", "l" >>,
    Flag |-> << "F", "l", "a", "g" >>,
    Parent_ab |-> << "P", "a", "r", "e", "n", "t", "(", "a", ",", "b", ")" >>,
    Parent_a_b |-> << "P", "a", "r", "e", "n", "t", "(", "(", "a", ")", ",", "b", ")" >>,
    Tall_a |-> << "T", "a", "l", "l", "(", "a", ")" >>,
    Tall_ab |-> << "T", "a", "l", "l", "(", "a", ",", "b", ")" >>,
    Flag_call |-> << "F", "l", "a", "g", "(", ")" >>,
    Flag_a |-> << "F", "l", "a", "g", "(", "a", ")" >> ]

\* Calls whose statements apply relations to 0, 1 and 2 arguments.
ArityQueries ==
  { [premises |-> << Usage.Parent_ab >>, conclusion |-> Usage.Parent_ab],
    [premises |-> << Usage.Parent_a_b >>, conclusion |-> Usage.Parent_a_b],
    [premises |-> << Usage.Tall_a >>, conclusion |-> Usage.Tall_a],
    [premises |-> << Usage.Tall_a >>, conclusion |-> Usage.Tall_ab],
    [premises |-> << Usage.Tall_ab >>, conclusion |-> Usage.Tall_a],
    [premises |-> << Usage.Flag_call >>, conclusion |-> Usage.Flag_call],
    [premises |-> << Usage.Flag_call >>, conclusion |-> Usage.Flag_a],
    [premises |-> << Usage.Flag >>, conclusion |-> Usage.Flag] }

\* Declarations that hint these relations, hints that are none of the four
\* type_hint values, hints against the case of the name, a hint for s, and
\* a hint for the full name of an alias.
ArityHints ==
  { [declarations |-> Dict(<< << Usage.Parent, Word.Predicate >>,
                             << Usage.Tall, Word.Function >>,
                             << Usage.Flag, Word.Predicate >> >>),
     aliases |-> None],
    [declarations |-> Dict(<< << Usage.Flag, Word.Predicate >> >>),
     aliases |-> Dict(<< << Usage.Tall, Usage.Parent >> >>)],
    [declarations |-> Dict(<< << Text.H, Unit.bool >>, << Text.x, Unit.bool >> >>),
     aliases |-> None],
    [declarations |-> Dict(<< << Text.x, Word.Predicate >>, << Text.H, Word.Object >> >>),
     aliases |-> None],
    [declarations |-> Dict(<< << Word.s, Word.Const >> >>), aliases |-> None],
    [declarations |-> Dict(<< << Text.Human, Word.Const >> >>),
     aliases |-> Dict(<< << Text.H, Text.Human >> >>)] }

\* Step 1 of the simplified mode: Object and s are bound, and a dictionary
\* passed as None becomes {}.
Setup(q, h) ==
  /\ call.phase \in { "idle", "done" }
  /\ is_simplified(q.premises, h.declarations, h.aliases)
  /\ call' = [phase |-> "aliases", premises |-> q.premises,
              conclusion |-> q.conclusion,
              declarations |-> OrEmpty(h.declarations),
              aliases |-> OrEmpty(h.aliases), i |-> 1, tokens |-> {}]
  /\ symbol_table' = StartTable.locals
  /\ UNCHANGED << hashVars, cacheVars, connVars, runs, solver, sessions, responses >>

\* One turn of "for alias_key, full_name in aliases.items()".
RegisterAlias ==
  /\ call.phase = "aliases"
  /\ call.i <= Len(call.aliases.items)
  /\ symbol_table' =
       register_symbol(symbol_table, call.aliases.items[call.i][1],
                       call.aliases.items[call.i][2],
                       DictGet(call.declarations, call.aliases.items[call.i][1]),
                       AllText(call.premises, call.conclusion)).locals
  /\ call' = [call EXCEPT !.i = call.i + 1]
  /\ UNCHANGED << hashVars, cacheVars, connVars, runs, solver, sessions, responses >>

\* One turn of "for decl_key, decl_type in declarations.items()".
RegisterDeclaration ==
  /\ call.phase = "declarations"
  /\ call.i <= Len(call.declarations.items)
  /\ symbol_table' =
       IF call.declarations.items[call.i][1] \in DictKeys(call.aliases)
         THEN symbol_table
         ELSE register_symbol(symbol_table, call.declarations.items[call.i][1],
                              call.declarations.items[call.i][1],
                              call.declarations.items[call.i][2],
                              AllText(call.premises, call.conclusion)).locals
  /\ call' = [call EXCEPT !.i = call.i + 1]
  /\ UNCHANGED << hashVars, cacheVars, connVars, runs, solver, sessions, responses >>

\* One turn of "for token in potential_tokens": a set is walked in any order.
RegisterDiscovered(token) ==
  /\ call.phase = "tokens"
  /\ token \in call.tokens
  /\ symbol_table' =
       RegisterToken([raised |-> FALSE, locals |-> symbol_table], token,
                     AllText(call.premises, call.conclusion)).locals
  /\ call' = [call EXCEPT !.tokens = call.tokens \ { token }]
  /\ UNCHANGED << hashVars, cacheVars, connVars, runs, solver, sessions, responses >>

\* A loop is exhausted: the call goes on to the next one, and to step 4
\* after the last.
EndLoop ==
  /\ \/ /\ call.phase = "aliases"
        /\ call.i > Len(call.aliases.items)
        /\ call' = [call EXCEPT !.phase = "declarations", !.i = 1]
     \/ /\ call.phase = "declarations"
        /\ call.i > Len(call.declarations.items)
        /\ call' = [call EXCEPT !.phase = "tokens",
                                !.tokens = FindTokens(AllText(call.premises,
                                                              call.conclusion), 1)]
     \/ /\ call.phase = "tokens"
        /\ call.tokens = {}
        /\ call' = [call EXCEPT !.phase = "done"]
  /\ UNCHANGED << hashVars, cacheVars, connVars, runs, solver, symbol_table, sessions,
                  responses >>

\* A step of a call made with any of the statements and hints above; the
\* tokens are those the statements hold.
NextRegister ==
  \/ \E q \in ProveQueries \cup ArityQueries, h \in ProveHints \cup ArityHints :
       Setup(q, h)
  \/ RegisterAlias
  \/ RegisterDeclaration
  \/ \E token \in UNION { FindTokens(AllText(q.premises, q.conclusion), 1) :
                            q \in ProveQueries \cup ArityQueries } :
       RegisterDiscovered(token)
  \/ EndLoop

SpecRegister == InitProve /\ [][NextRegister]_vars

\* C16: within one call, a name that is bound in the symbol table keeps its
\* binding through every later registration.
C16_BindingsArePermanent ==
  [][call.phase \in { "aliases", "declarations", "tokens" }
       => \A key \in DOMAIN symbol_table :
            key \in DOMAIN symbol_table' /\ symbol_table'[key] = symbol_table[key]]_vars

\* The aliases asked for a name that was bound already, s, and every
\* registration of the call is over.
C16_Witness ==
  /\ call.phase = "done"
  /\ Word.s \in DictKeys(call.aliases)
  /\ symbol_table[Word.s] = SolverValue
  /\ Text.H \in DOMAIN symbol_table

\* The text the call scans, and the relations its symbol table binds.
TextOf(c) == AllText(c.premises, c.conclusion)
Relations == { key \in DOMAIN symbol_table : symbol_table[key].kind = "func" }

\* The "(" that follows the name at i, after any spaces.
OpenOf(text, key, i) == SkipSpaces(text, i + Len(key))

\* The places where text applies key: the name, then "(".
Applications(text, key) ==
  { i \in 1..Len(text) :
      /\ StartsAt(text, i, key)
      /\ (i = 1 \/ ~IsWordChar(text[i - 1]))
      /\ OpenOf(text, key, i) <= Len(text)
      /\ text[OpenOf(text, key, i)] = "(" }

\* The parentheses open at position j, counted from the "(" at open.
Depth(text, open, j) ==
  Cardinality({ p \in open..j : text[p] = "(" })
    - Cardinality({ p \in open..j : text[p] = ")" })

\* The ")" that closes the "(" at open.
CloseOf(text, open) ==
  Leftmost({ j \in open..Len(text) : Depth(text, open, j) = 0 })

\* The number of comma-separated arguments between the "(" at open and the
\* ")" that closes it: 0 when there is nothing but spaces between them.
ArgumentCount(text, open) ==
  IF \A p \in (open + 1)..(CloseOf(text, open) - 1) : IsSpace(text[p])
    THEN 0
    ELSE 1 + Cardinality({ p \in (open + 1)..(CloseOf(text, open) - 1) :
                            text[p] = "," /\ Depth(text, open, p) = 1 })

\* The number of arguments of the first application of key in text.
FirstArgumentCount(text, key) ==
  ArgumentCount(text, OpenOf(text, key, Leftmost(Applications(text, key))))

\* C17: a relation whose first application in the text has a non-empty
\* argument list is declared with the number of comma-separated arguments
\* of that application as its arity, hinted or not.
C17_Claimed ==
  \A key \in Relations :
    (/\ Applications(TextOf(call), key) # {}
     /\ FirstArgumentCount(TextOf(call), key) > 0)
      => symbol_table[key].arity = FirstArgumentCount(TextOf(call), key)

\* C18: a relation without a hint whose first application has an empty
\* argument list is declared with arity 0.
C18_Claimed ==
  \A key \in Relations :
    (/\ key \notin DictKeys(call.declarations)
     /\ Applications(TextOf(call), key) # {}
     /\ FirstArgumentCount(TextOf(call), key) = 0)
      => symbol_table[key].arity = 0

\* C19: a relation that the premises and the conclusion nowhere apply is
\* declared with arity 1.
C19_UnappliedIsUnary ==
  \A key \in Relations :
    Applications(TextOf(call), key) = {} => symbol_table[key].arity = 1

\* The call is through its registrations with two relations that its
\* statements do not apply: Flag, hinted, and Tall, an alias without a hint.
C19_Witness ==
  /\ call.phase = "done"
  /\ { Usage.Flag, Usage.Tall } \subseteq Relations
  /\ Usage.Flag \in DictKeys(call.declarations)
  /\ Usage.Tall \notin DictKeys(call.declarations)
  /\ Applications(TextOf(call), Usage.Flag) = {}
  /\ Applications(TextOf(call), Usage.Tall) = {}

\* The argument counts of the applications of key in text.
ArgumentCounts(text, key) ==
  { ArgumentCount(text, OpenOf(text, key, i)) : i \in Applications(text, key) }

\* C20: a relation applied with different numbers of arguments is declared
\* all the same, with the arity of its first application in the text of
\* the premises, in their order, and then the conclusion.
C20_Claimed ==
  /\ call.phase # "failed"
  /\ \A key \in Relations :
       Cardinality(ArgumentCounts(TextOf(call), key)) > 1
         => symbol_table[key].arity = FirstArgumentCount(TextOf(call), key)

\* The names the call has declared: all that is bound but Object and s.
Declared == { key \in DOMAIN symbol_table : symbol_table[key].kind \in { "func", "const" } }

\* The hint of key is one of the four that register_symbol knows.
UsableHint(key) ==
  DictGet(call.declarations, key)
    \in { Word.Predicate, Word.Function, Word.Const, Word.Object }

\* key starts with a lowercase letter.
StartsLowercase(key) ==
  key[1] \in { "a", "b", "c", "d", "e", "f", "g", "h", "i", "j", "k", "l", "m",
               "n", "o", "p", "q", "r", "s", "t", "u", "v", "w", "x", "y", "z" }

HintedKind(key) ==
  IF DictGet(call.declarations, key) \in { Word.Predicate, Word.Function }
    THEN "func" ELSE "const"

\* C22: once the declarations are registered, and so before and after
\* discovery, every name with a usable hint is declared with the kind of
\* its hint, whatever the case of its first letter.
C22_Claimed ==
  call.phase \in { "tokens", "done" }
    => \A key \in DictKeys(call.declarations) :
         UsableHint(key)
           => key \in Declared /\ symbol_table[key].kind = HintedKind(key)

\* The alias entry binds its short name under its full name, with the kind
\* of the hint of the full name when there is a usable one.
AliasBound(short, full) ==
  /\ short \in Declared
  /\ symbol_table[short].name = full
  /\ UsableHint(full) => symbol_table[short].kind = HintedKind(full)

\* C23: the aliases are registered first: when the loop over them is done,
\* each short name is bound to a declaration that carries its full name,
\* of the kind the hint of that full name asks for, and stays so.
C23_Claimed ==
  call.phase \in { "declarations", "tokens", "done" }
    => \A k \in 1..Len(call.aliases.items) :
         AliasBound(call.aliases.items[k][1], call.aliases.items[k][2])

SessionQueries ==
  { [premises |-> << Text.Mx, Text.Hs >>, conclusion |-> Text.Mx],
    [premises |-> << Text.HxImpMx, Text.Hx >>, conclusion |-> Text.Mx],
    [premises |-> << Text.Hx >>, conclusion |-> Text.Mx] }
SessionHints ==
  { [declarations |-> None, aliases |-> None],
    [declarations |-> None,
     aliases |-> Dict(<< << Text.H, Text.P >>, << Text.M, Text.P >> >>)] }

\* The symbol table steps 1 to 3 build for each of these calls.
SymbolTables ==
  [q \in SessionQueries, h \in SessionHints |->
     BuildSymbolTable(q.premises, q.conclusion, h.declarations, h.aliases).locals]

\* A formula added to every solver there is.
solver_add_shared(all, p, expr) ==
  [c \in DOMAIN all |->
     [all[c] EXCEPT !.solver = Append(@, AsFormula(expr.val)),
                    !.i = IF c = p THEN @ + 1 ELSE @]]

\* solver.add(expr) in call p, and on to the next premise.
solver_add(all, p, expr) ==
  [all EXCEPT ![p].solver = Append(@, AsFormula(expr.val)), ![p].i = @ + 1]

\* Call p returns.
Returns(all, p, done) ==
  [all EXCEPT ![p].phase = "done", ![p].returned = PyBool(done.verdict),
              ![p].solver = done.assertions]

\* solver.add(eval(premise, ..)) in call p: an exception returns False.
AddedNext(all, p, expr) ==
  IF expr.raised \/ ~BoolCastable(expr.val)
    THEN Returns(all, p, ProveResult(FALSE, "premise", "none", all[p].solver))
    ELSE solver_add(all, p, expr)

\* Call p begins: locals_dict = {}, solver = Solver(), the symbol table.
Begin(p, q, h) ==
  /\ sessions[p].phase \in { "idle", "done" }
  /\ is_simplified(q.premises, h.declarations, h.aliases)
  /\ sessions' =
       [sessions EXCEPT ![p] =
          [phase |-> "premises", premises |-> q.premises,
           conclusion |-> q.conclusion, declarations |-> h.declarations,
           aliases |-> h.aliases,
           locals_dict |-> SymbolTables[q, h],
           solver |-> Solver, i |-> 1, returned |-> "None"]]
  /\ UNCHANGED << hashVars, cacheVars, connVars, runs, solver, call, symbol_table,
                  responses >>

\* One turn of "for premise in premises" in call p.
AddNext(p) ==
  /\ sessions[p].phase = "premises"
  /\ sessions[p].i <= Len(sessions[p].premises)
  /\ sessions' =
       AddedNext(sessions, p,
                 eval(sessions[p].premises[sessions[p].i], sessions[p].locals_dict))
  /\ UNCHANGED << hashVars, cacheVars, connVars, runs, solver, call, symbol_table,
                  responses >>

\* The premises of call p are asserted: its conclusion is tried.
Conclude(p, gives_up) ==
  /\ sessions[p].phase = "premises"
  /\ sessions[p].i > Len(sessions[p].premises)
  /\ sessions' =
       Returns(sessions, p,
               ProveConclusion(sessions[p].conclusion, sessions[p].locals_dict,
                               sessions[p].solver, gives_up))
  /\ UNCHANGED << hashVars, cacheVars, connVars, runs, solver, call, symbol_table,
                  responses >>

NextSessions ==
  \E p \in 1..NumCalls :
    \/ \E q \in SessionQueries, h \in SessionHints : Begin(p, q, h)
    \/ AddNext(p)
    \/ \E gives_up \in BOOLEAN : Conclude(p, gives_up)

SpecSessions == InitProve /\ [][NextSessions]_vars

\* What the call of session c returns when it runs with no other call.
Alone(c, gives_up) ==
  prove_logic(c.premises, c.conclusion, c.declarations, c.aliases, gives_up)

\* The formulas of its own premises that session c has asserted so far.
OwnAssertions(c) ==
  AddPremises(SubSeq(c.premises, 1, c.i - 1), c.locals_dict, << >>).assertions

TypeName ==
  [ Int |-> << "I", "n", "t" >>,
    Real |-> << "R", "e", "a", "l" >>,
    Bool |-> << "B", "o", "o", "l" >>,
    Float |-> << "F", "l", "o", "a", "t" >> ]

\* Int(var_name), Real(var_name), Bool(var_name): a Bool variable is a
\* formula, the others are terms that do not cast to Bool.
VarValue(var_type, var_name) ==
  IF var_type = TypeName.Bool
    THEN FormulaValue([op |-> "atom", pred |-> var_name, args |-> << >>])
    ELSE [kind |-> "var", sort |-> var_type, name |-> var_name]

\* if var_type == 'Int' .. elif 'Real' .. elif 'Bool' .. else: Int(var_name)
TypedValue(var_type, var_name) ==
  IF var_type \in { TypeName.Int, TypeName.Real, TypeName.Bool }
    THEN VarValue(var_type, var_name)
    ELSE VarValue(TypeName.Int, var_name)

\* for var_name in variables: locals_dict[var_name] = ..
RECURSIVE CreateTyped(_, _, _)
CreateTyped(locals_dict, variables, i) ==
  IF i > Len(variables.items) THEN locals_dict
  ELSE CreateTyped((variables.items[i][1]
                      :> TypedValue(variables.items[i][2], variables.items[i][1]))
                     @@ locals_dict,
                   variables, i + 1)

\* reserved = set(globals().keys()) | {'True', 'False', 'None', 'and', 'or',
\*            'not', 'if', 'else', 'in', 'is'}
reserved ==
  ModuleGlobals \cup
    { Word.True, Word.False, Word.None, << "a", "n", "d" >>, << "o", "r" >>,
      << "n", "o", "t" >>, << "i", "f" >>, << "e", "l", "s", "e" >>,
      << "i", "n" >>, << "i", "s" >> }

\* discovered_vars = [v for v in potential_vars if v not in reserved and not
\*                    hasattr(sys.modules[__name__], v)]
discovered_vars(all_text) ==
  { v \in FindTokens(all_text, 1) : v \notin reserved /\ ~hasattr_module(v) }

\* for var_name in discovered_vars: if var_name not in locals_dict:
\*     locals_dict[var_name] = Int(var_name)
CreateDiscovered(locals_dict, discovered) ==
  [var_name \in DOMAIN locals_dict \cup discovered |->
     IF var_name \in DOMAIN locals_dict THEN locals_dict[var_name]
     ELSE VarValue(TypeName.Int, var_name)]

\* Steps 1 to 3 of the simplified mode: locals_dict['s'] = solver, then the
\* typed variables, then the discovered ones.
CreateVariables(constraints, variables) ==
  CreateDiscovered(CreateTyped((Word.s :> SolverValue), variables, 1),
                   discovered_vars(Join(<< " " >>, constraints)))

\* What a check_satisfiability call did: where it stopped, the variables it
\* created, the assertions of its solver and the answer of solver.check().
SatResult(stage, locals_dict, assertions, result) ==
  [stage |-> stage, locals_dict |-> locals_dict, assertions |-> assertions,
   result |-> result]

\* Step 4 has run: an exception ends the call, else the solver is checked.
AfterConstraints(locals_dict, added, gives_up) ==
  IF added.raised THEN SatResult("setup", locals_dict, added.assertions, "none")
  ELSE SatResult("check", locals_dict, added.assertions,
                 solver_check(added.assertions, gives_up))

\* The simplified mode on the variables created.
SimplifiedSat(constraints, locals_dict, gives_up) ==
  AfterConstraints(locals_dict, AddPremises(constraints, locals_dict, Solver),
                   gives_up)

\* The legacy mode on expression statements: exec() binds no name, so no
\* solver is found.
LegacySat(constraints) ==
  IF ExecPremises(constraints).raised
    THEN SatResult("constraint", << >>, << >>, "none")
    ELSE SatResult("no solver", << >>, << >>, "none")

\* check_satisfiability up to the answer of solver.check(), on a solver that
\* answers unknown when gives_up is true.
check_satisfiability(constraints, variables, gives_up) ==
  IF is_simplified(constraints, variables, None)
    THEN SimplifiedSat(constraints, CreateVariables(constraints, OrEmpty(variables)),
                       gives_up)
    ELSE LegacySat(constraints)

\* solver.model() is one of the assignments that satisfy the assertions.
IsModel(assertions, trueAtoms) ==
  /\ trueAtoms \subseteq UNION { AtomsOf(assertions[k]) : k \in 1..Len(assertions) }
  /\ \A k \in 1..Len(assertions) : Holds(assertions[k], trueAtoms)

\* model_dict[decl.name()] = str(model[decl])
model_dict(assertions, trueAtoms) ==
  [tag |-> "dict",
   pairs |-> { << a.pred, IF a \in trueAtoms THEN Word.True ELSE Word.False >> :
               a \in UNION { AtomsOf(assertions[k]) : k \in 1..Len(assertions) } }]

\* The dict returned: the error outcomes hold the keys "satisfiable" and
\* "error" and no other.
ResponseOf(done, trueAtoms) ==
  IF done.stage = "setup"
    THEN [satisfiable |-> FALSE, error |-> "Error in Simplified Mode setup"]
  ELSE IF done.stage = "constraint"
    THEN [satisfiable |-> FALSE, error |-> "Error in constraint"]
  ELSE IF done.stage = "no solver"
    THEN [satisfiable |-> FALSE, error |-> "No solver created"]
  ELSE IF done.result = "sat"
    THEN [satisfiable |-> TRUE, model |-> model_dict(done.assertions, trueAtoms)]
  ELSE IF done.result = "unsat"
    THEN [satisfiable |-> FALSE, model |-> None]
  ELSE [satisfiable |-> FALSE, model |-> None, error |-> "Unknown result from solver"]

\* Statements over the names p, q and s.
Clause ==
  [ p |-> << "p" >>,
    q |-> << "q" >>,
    s |-> << "s" >>,
    Not_p |-> << "N", "o", "t", "(", "p", ")" >>,
    Or_p_q |-> << "O", "r", "(", "p", ",", " ", "q", ")" >>,
    Or_p_s |-> << "O", "r", "(", "p", ",", " ", "s", ")" >>,
    s_add_p |-> << "s", ".", "a", "d", "d", "(", "p", ")" >> ]

\* The constraints and variables passed to check_satisfiability.
SatQueries ==
  { [constraints |-> << Clause.Or_p_q, Clause.Not_p >>,
     variables |-> Dict(<< << Clause.p, TypeName.Bool >>, << Clause.q, TypeName.Bool >> >>)],
    [constraints |-> << Clause.p, Clause.Not_p >>,
     variables |-> Dict(<< << Clause.p, TypeName.Bool >> >>)],
    [constraints |-> << Clause.Or_p_q >>, variables |-> None],
    [constraints |-> << Clause.Or_p_q >>,
     variables |-> Dict(<< << Clause.p, TypeName.Bool >>, << Clause.q, TypeName.Float >> >>)],
    [constraints |-> << Clause.Or_p_q >>,
     variables |-> Dict(<< << Clause.p, TypeName.Bool >>, << Clause.q, TypeName.Real >> >>)],
    [constraints |-> << Clause.Or_p_s >>,
     variables |-> Dict(<< << Clause.p, TypeName.Bool >> >>)],
    [constraints |-> << Clause.Or_p_s >>,
     variables |-> Dict(<< << Clause.p, TypeName.Bool >>, << Clause.s, TypeName.Bool >> >>)],
    [constraints |-> << Clause.p >>,
     variables |-> Dict(<< << Clause.p, TypeName.Int >> >>)],
    [constraints |-> << >>, variables |-> Dict(<< >>)],
    [constraints |-> << >>, variables |-> None],
    [constraints |-> << Clause.s_add_p >>, variables |-> None] }

\* The call has returned: what it was given, the variables it created and
\* the dict it returned are on record.
Respond(q, done, trueAtoms) ==
  /\ IF done.result = "sat" THEN IsModel(done.assertions, trueAtoms)
     ELSE trueAtoms = {}
  /\ responses' = Append(responses,
                         [constraints |-> q.constraints, variables |-> q.variables,
                          simplified |-> done.stage \in { "setup", "check" },
                          locals_dict |-> done.locals_dict,
                          response |-> ResponseOf(done, trueAtoms)])

\* One call of check_satisfiability.
CheckSatisfiability(q, gives_up, trueAtoms) ==
  /\ Len(responses) < MaxRuns
  /\ Respond(q, check_satisfiability(q.constraints, q.variables, gives_up), trueAtoms)
  /\ UNCHANGED << hashVars, cacheVars, connVars, runs, solver, call, symbol_table,
                  sessions >>

NextSat ==
  \E q \in SatQueries, gives_up \in BOOLEAN,
     trueAtoms \in SUBSET { VarValue(TypeName.Bool, name).f :
                            name \in { Clause.p, Clause.q, Clause.s } } :
    CheckSatisfiability(q, gives_up, trueAtoms)

SpecSat == InitProve /\ [][NextSat]_vars

\* The type of what a name is bound to, none when it is no variable.
TypeOf(value) ==
  IF value.kind = "var" THEN value.sort
  ELSE IF value.kind = "formula" THEN TypeName.Bool
  ELSE << >>

\* The type a name has by the variables dict, Int when it is not listed or
\* listed with another word than Int, Real or Bool.
ListedType(variables, var_name) ==
  IF variables # None /\ var_name \in DictKeys(variables)
       /\ DictGet(variables, var_name) \in { TypeName.Real, TypeName.Bool }
    THEN DictGet(variables, var_name)
    ELSE TypeName.Int

\* The names a call is about: those it lists and the identifiers found in
\* its constraints that are no name of the module.
VariablesOf(r) ==
  (IF r.variables = None THEN {} ELSE DictKeys(r.variables))
    \cup discovered_vars(Join(<< " " >>, r.constraints))

\* C24: in the simplified mode of check_satisfiability every listed name
\* and every discovered identifier is bound to a variable of the type it is
\* listed with, and of type Int when it is not listed or listed with an
\* unrecognised type.
C24_Claimed ==
  \A k \in 1..Len(responses) :
    responses[k].simplified
      => \A var_name \in VariablesOf(responses[k]) :
           /\ var_name \in DOMAIN responses[k].locals_dict
           /\ TypeOf(responses[k].locals_dict[var_name])
                = ListedType(responses[k].variables, var_name)

\* The dict is a mapping from names to value strings.
IsMapping(d) == d.tag = "dict"

\* C25: every response of check_satisfiability holds a boolean under
\* "satisfiable" and a value under "model", which is a mapping from names
\* to values when satisfiable is true and None when it is false.
C25_Claimed ==
  \A k \in 1..Len(responses) :
    /\ "satisfiable" \in DOMAIN responses[k].response
    /\ responses[k].response.satisfiable \in BOOLEAN
    /\ "model" \in DOMAIN responses[k].response
    /\ responses[k].response.satisfiable => IsMapping(responses[k].response.model)
    /\ ~responses[k].response.satisfiable => responses[k].response.model = None

(***************************************************************************)
(* Two _compute_hash calls on arbitrary arguments                          *)
(***************************************************************************)

\* Bounds of the argument space.
MaxPremises == 2

\* All lists over S of length at most n.
RECURSIVE ListsUpTo(_, _)
ListsUpTo(S, n) ==
  IF n = 0 THEN { << >> }
  ELSE LET shorter == ListsUpTo(S, n - 1)
       IN  shorter \cup { Append(l, x) : l \in shorter, x \in S }

HashStatements == { Unit.A, Unit.AimpB }
HashConclusions == { Unit.A, Unit.B }
HashDeclarations == { None, UnitHints.decls1, UnitHints.decls2 }
HashAliases == { None, UnitHints.aliases1, UnitHints.aliases2 }

HashArgs ==
  [ premises : ListsUpTo(HashStatements, MaxPremises),
    conclusion : HashConclusions,
    declarations : HashDeclarations,
    aliases : HashAliases ]

InitHash ==
  /\ hargs \in [1..2 -> HashArgs]
  /\ hdigest = [i \in 1..2 |-> NoDigest]
  /\ InitCacheVars

\* cache._compute_hash(premises, conclusion, declarations, aliases)
ComputeHash(i) ==
  /\ hdigest[i] = NoDigest
  /\ hdigest' = [hdigest EXCEPT ![i] =
                   _compute_hash(hargs[i].premises, hargs[i].conclusion,
                                 hargs[i].declarations, hargs[i].aliases)]
  /\ UNCHANGED << hargs, cacheVars, connVars, proveVars >>

NextHash == \E i \in 1..2 : ComputeHash(i)

SpecHash == InitHash /\ [][NextHash]_vars

BothHashed == hdigest[1] # NoDigest /\ hdigest[2] # NoDigest

\* The number of positions of list xs holding x.
Count(xs, x) == Cardinality({ i \in 1..Len(xs) : xs[i] = x })

\* ys is a rearrangement of xs.
IsPermutation(xs, ys) ==
  /\ Len(xs) = Len(ys)
  /\ \A i \in 1..Len(xs) : Count(xs, xs[i]) = Count(ys, xs[i])

\* C1: two _compute_hash calls with the same premises list and the same
\* conclusion return the same digest, whatever declarations and aliases
\* (None included) each was given.
C1_HashIgnoresHints ==
  ( /\ BothHashed
    /\ hargs[1].premises = hargs[2].premises
    /\ hargs[1].conclusion = hargs[2].conclusion )
  => hdigest[1] = hdigest[2]

\* The case of test_cache_unit.py, and None against a dictionary.
C1_Witness ==
  /\ BothHashed
  /\ hargs[1].premises = << Unit.AimpB, Unit.A >> /\ hargs[2].premises = << Unit.AimpB, Unit.A >>
  /\ hargs[1].conclusion = Unit.B /\ hargs[2].conclusion = Unit.B
  /\ hargs[1].declarations = UnitHints.decls1 /\ hargs[2].declarations = None
  /\ hargs[1].aliases = UnitHints.aliases1 /\ hargs[2].aliases = UnitHints.aliases2
  /\ hdigest[1] = hdigest[2]

\* C2: two _compute_hash calls whose premises lists are permutations of each
\* other, with the same conclusion, return the same digest.
C2_HashIgnoresOrder ==
  ( /\ BothHashed
    /\ IsPermutation(hargs[1].premises, hargs[2].premises)
    /\ hargs[1].conclusion = hargs[2].conclusion )
  => hdigest[1] = hdigest[2]

C2_Witness ==
  /\ BothHashed
  /\ hargs[1].premises = << Unit.AimpB, Unit.A >> /\ hargs[2].premises = << Unit.A, Unit.AimpB >>
  /\ hargs[1].conclusion = hargs[2].conclusion
  /\ hdigest[1] = hdigest[2]

=============================================================================
